---- MODULE Spec2Model ----
(***************************************************************************)
(* A model of bugmon: the whiteboard command codec (BugMonitor.commands    *)
(* in bugmon/bugmon.py and EnhancedBug.commands in bugmon/bug.py), the     *)
(* BugMonitor constructor's testcase extraction, and the BugMonitor        *)
(* workflow process() / update().                                          *)
(*                                                                         *)
(* Text is a sequence of lexical units.  One unit is the marker            *)
(* "[bugmon:", the others are single characters ("]", ",", "=", a text     *)
(* character) or a command word ("verify", "confirmed", ...) that holds    *)
(* none of the characters the regular expressions look at.  The regular    *)
(* expressions of the source are evaluated on these units the way Python's *)
(* re module evaluates them on characters.                                 *)
(***************************************************************************)
EXTENDS Integers, Sequences, FiniteSets, TLC

VARIABLES
    pc,          \* where the caller is: "new", "idle", "action", "update", "raised", "codec"
    whiteboard,  \* bug.whiteboard, a sequence of lexical units
    lastOp,      \* the last codec operation applied: its name, argument and the text before
    status,      \* bug.status
    resolution,  \* bug.resolution
    keywords,    \* bug.keywords
    flags,       \* bug.cf_status_firefox<N>, by branch alias
    version,     \* bug.version: [numeric |-> BOOLEAN, n |-> the number it starts with]
    tracker,     \* the bug as the tracker holds it (bugsy's last-fetched copy)
    queue,       \* self.queue
    close_bug,   \* self._close_bug
    dry_run,     \* self.dry_run
    attachments, \* what bug.get_attachments() returns
    testcase,    \* self.testcase: 0 for None, else the position of the attachment
    actions,     \* the local list "actions" of process()
    ai,          \* position of process() in "for action in actions"
    baseline,    \* the local "baseline" of process(): a reproduction status
    oracle,      \* what the fetcher, the evaluator and the bisector answer, once asked
    run,         \* history of the current process() run and of the tracker writes
    record       \* the rest of the bug: _bug and bugsy's _copy by key (fields, copy),
                 \* creation_time, the first comment's text (comment_zero), and the
                 \* age of last_change_time (last_change), the client _bugsy (client)

bugVars == <<whiteboard, status, resolution, keywords, flags, version>>
selfVars == <<queue, close_bug, dry_run>>
ctorVars == <<attachments, testcase, record>>
stepVars == <<actions, ai, baseline>>
vars == <<pc, lastOp, bugVars, tracker, selfVars, ctorVars, stepVars, oracle, run>>

-----------------------------------------------------------------------------
(* Bounds *)

MaxTextLen == 5
MaxCmds == 2
MaxFixed == 1
MaxRuns == 2
MaxAttachments == 2
MaxBehind == 3
MaxTokens == 2

-----------------------------------------------------------------------------
(* Text helpers *)

Marker == "[bugmon:"

Contains(s, t) == \E i \in DOMAIN s : s[i] = t

\* Index of the first occurrence of t in s, 0 when there is none.
IndexOf(s, t) ==
    IF Contains(s, t) THEN CHOOSE i \in DOMAIN s : s[i] = t /\ \A j \in 1..(i-1) : s[j] # t
    ELSE 0

\* Python's str.split(sep): the pieces between the separators, never empty.
RECURSIVE Split(_, _)
Split(s, sep) ==
    LET k == IndexOf(s, sep)
    IN  IF k = 0 THEN <<s>>
        ELSE <<SubSeq(s, 1, k-1)>> \o Split(SubSeq(s, k+1, Len(s)), sep)

\* The class [^\]]* from position i: the first position at or after i that
\* holds "]", or Len(wb)+1.
RECURSIVE RunEnd(_, _)
RunEnd(wb, i) ==
    IF i > Len(wb) \/ wb[i] = "]" THEN i ELSE RunEnd(wb, i+1)

-----------------------------------------------------------------------------
(* Python dict with insertion order: a sequence of [k, v] with distinct    *)
(* keys.  A value is <<>> for None and <<s>> for the string s.             *)

None == <<>>
Some(s) == <<s>>

HasKey(d, k) == \E i \in DOMAIN d : d[i].k = k

DictSet(d, k, v) ==
    IF HasKey(d, k)
    THEN [i \in DOMAIN d |-> IF d[i].k = k THEN [k |-> k, v |-> v] ELSE d[i]]
    ELSE Append(d, [k |-> k, v |-> v])

DictDel(d, k) == SelectSeq(d, LAMBDA e : e.k # k)

DictGet(d, k) == (CHOOSE e \in {d[i] : i \in DOMAIN d} : e.k = k).v

\* Python's dict equality: same keys with the same values, in any order.
DictEq(d, e) == {d[i] : i \in DOMAIN d} = {e[i] : i \in DOMAIN e}

\* The loop "for command in match.group(0).split(','):" of both getters.
\* "name, value = command.split('=')" raises ValueError unless there are
\* exactly two pieces.
RECURSIVE ParseCommands(_, _)
ParseCommands(cmds, d) ==
    IF cmds = <<>> THEN [err |-> FALSE, d |-> d]
    ELSE LET c == Head(cmds)
         IN  IF Contains(c, "=")
             THEN LET p == Split(c, "=")
                  IN  IF Len(p) # 2 THEN [err |-> TRUE, d |-> d]
                      ELSE ParseCommands(Tail(cmds), DictSet(d, p[1], Some(p[2])))
             ELSE ParseCommands(Tail(cmds), DictSet(d, c, None))

EncodeItem(e) == IF e.v # None THEN e.k \o <<"=">> \o e.v[1] ELSE e.k

\* ",".join([f"{k}={v}" if v is not None else k for k, v in value.items()])
RECURSIVE JoinParts(_)
JoinParts(d) ==
    IF d = <<>> THEN <<>>
    ELSE IF Len(d) = 1 THEN EncodeItem(d[1])
    ELSE EncodeItem(d[1]) \o <<",">> \o JoinParts(Tail(d))

-----------------------------------------------------------------------------
(* BugMonitor.commands (bugmon/bugmon.py) *)

\* re.search(r"(?<=\[bugmon:).[^\]]*", wb) from position i: the start of the
\* first match, 0 when there is none.  "." takes any unit, "]" included.
RECURSIVE MonitorMatchStart(_, _)
MonitorMatchStart(wb, i) ==
    IF i > Len(wb) THEN 0
    ELSE IF i > 1 /\ wb[i-1] = Marker THEN i
    ELSE MonitorMatchStart(wb, i+1)

MonitorMatchEnd(wb, i) == RunEnd(wb, i+1)

\* re.sub(r"(?<=\[bugmon:)(.[^\]]*)", parts, wb): every match is replaced.
RECURSIVE MonitorSub(_, _, _)
MonitorSub(wb, i, parts) ==
    IF i > Len(wb) THEN <<>>
    ELSE IF i > 1 /\ wb[i-1] = Marker
         THEN parts \o MonitorSub(wb, MonitorMatchEnd(wb, i), parts)
         ELSE <<wb[i]>> \o MonitorSub(wb, i+1, parts)

\* re.sub(r"([bugmon:.[^\]]*)", "", wb): the pattern is one character class,
\* {b,u,g,m,o,n,:,.,[,^,]}, so every such character is deleted.  Reached only
\* when a match decodes to no key, which never happens.
MonitorStripClass(wb) == SelectSeq(wb, LAMBDA t : t \notin {Marker, "]"})

\* The getter.
Monitor_commands(wb) ==
    IF wb = <<>> THEN [err |-> FALSE, d |-> <<>>]
    ELSE LET s == MonitorMatchStart(wb, 1)
         IN  IF s = 0 THEN [err |-> FALSE, d |-> <<>>]
             ELSE ParseCommands(Split(SubSeq(wb, s, MonitorMatchEnd(wb, s) - 1), ","), <<>>)

\* The setter: the new whiteboard, or err when the getter it calls raises.
Monitor_set_commands(wb, value) ==
    LET parts == JoinParts(value)
    IN  IF Len(parts) # 0
        THEN IF MonitorMatchStart(wb, 1) # 0
             THEN LET cur == Monitor_commands(wb)
                  IN  IF cur.err THEN [err |-> TRUE, wb |-> wb]
                      ELSE IF Len(cur.d) # 0
                           THEN [err |-> FALSE, wb |-> MonitorSub(wb, 1, parts)]
                           ELSE [err |-> FALSE, wb |-> MonitorStripClass(wb)]
             ELSE [err |-> FALSE, wb |-> wb \o <<Marker>> \o parts \o <<"]">>]
        ELSE [err |-> FALSE, wb |-> MonitorSub(wb, 1, parts)]

-----------------------------------------------------------------------------
(* EnhancedBug.commands (bugmon/bug.py) *)

\* re.search(r"(?<=\[bugmon:)[^]]+", wb): the start of the first match, 0
\* when there is none.
RECURSIVE EnhancedMatchStart(_, _)
EnhancedMatchStart(wb, i) ==
    IF i > Len(wb) THEN 0
    ELSE IF i > 1 /\ wb[i-1] = Marker /\ wb[i] # "]" THEN i
    ELSE EnhancedMatchStart(wb, i+1)

\* pattern.sub(parts, wb) for r"(?<=\[bugmon:)([^]]*)": every match is
\* replaced, the empty ones included.
RECURSIVE EnhancedSub(_, _, _)
EnhancedSub(wb, i, parts) ==
    IF i > 1 /\ i <= Len(wb) + 1 /\ wb[i-1] = Marker
    THEN LET e == RunEnd(wb, i)
         IN  IF e > i THEN parts \o EnhancedSub(wb, e, parts)
             ELSE IF i > Len(wb) THEN parts
             ELSE parts \o <<wb[i]>> \o EnhancedSub(wb, i+1, parts)
    ELSE IF i > Len(wb) THEN <<>>
    ELSE <<wb[i]>> \o EnhancedSub(wb, i+1, parts)

\* pattern.sub("", wb) for r"(\[bugmon:.*?])": every marker up to the next
\* "]" is deleted.
RECURSIVE EnhancedRemove(_, _)
EnhancedRemove(wb, i) ==
    IF i > Len(wb) THEN <<>>
    ELSE IF wb[i] = Marker /\ RunEnd(wb, i+1) <= Len(wb)
         THEN EnhancedRemove(wb, RunEnd(wb, i+1) + 1)
         ELSE <<wb[i]>> \o EnhancedRemove(wb, i+1)

\* The getter.
Enhanced_commands(wb) ==
    IF wb = <<>> THEN [err |-> FALSE, d |-> <<>>]
    ELSE LET s == EnhancedMatchStart(wb, 1)
         IN  IF s = 0 THEN [err |-> FALSE, d |-> <<>>]
             ELSE ParseCommands(Split(SubSeq(wb, s, RunEnd(wb, s) - 1), ","), <<>>)

\* The setter.
Enhanced_set_commands(wb, value) ==
    LET parts == JoinParts(value)
    IN  IF Len(parts) # 0
        THEN IF Contains(wb, Marker)
             THEN [err |-> FALSE, wb |-> EnhancedSub(wb, 1, parts)]
             ELSE [err |-> FALSE, wb |-> wb \o <<Marker>> \o parts \o <<"]">>]
        ELSE [err |-> FALSE, wb |-> EnhancedRemove(wb, 1)]

-----------------------------------------------------------------------------
(* BugMonitor: branch resolution (bugmon/bugmon.py) *)

\* self.central_version, read from milestone.txt by the constructor.
CentralVersion == 80

IntVal(n) == [type |-> "int", n |-> n]
StrVal(n) == [type |-> "str", n |-> n]

\* The property version: re.match(r"\d+", bug.version) gives the digits as a
\* string; without a match the integer central_version is returned.
BugMonitor_version(v) == IF v.numeric THEN StrVal(v.n) ELSE IntVal(CentralVersion)

\* The property branches, in insertion order.  Fetcher.resolve_esr() is
\* taken to resolve no ESR alias, so the table holds the three trains.
BugMonitor_branches ==
    << [alias |-> "central", rel_num |-> IntVal(CentralVersion)],
       [alias |-> "beta",    rel_num |-> IntVal(CentralVersion - 1)],
       [alias |-> "release", rel_num |-> IntVal(CentralVersion - 2)] >>

\* The property branch: the first alias whose number equals self.version
\* (Python's ==, so a string never equals an integer), "None" without one.
BugMonitor_branch(v) ==
    LET hits == {i \in DOMAIN BugMonitor_branches :
                    BugMonitor_branches[i].rel_num = BugMonitor_version(v)}
    IN  IF hits = {} THEN "None"
        ELSE BugMonitor_branches[CHOOSE i \in hits : \A j \in hits : i <= j].alias

-----------------------------------------------------------------------------
(* BugMonitor: the eligibility predicates, on the decoded commands *)

Key(word) == <<word>>

_needs_bisect(cmds) ==
    IF HasKey(cmds, Key("bisected")) THEN FALSE
    ELSE IF HasKey(cmds, Key("bisect")) THEN TRUE
    ELSE FALSE

\* The same with the request tested before the mark.
_needs_confirm_requested(cmds, st) ==
    IF HasKey(cmds, Key("confirm")) THEN TRUE
    ELSE IF HasKey(cmds, Key("confirmed")) THEN FALSE
    ELSE IF st \in {"ASSIGNED", "NEW", "UNCONFIRMED", "REOPENED"} THEN TRUE
    ELSE FALSE

_needs_confirm(cmds, st) ==
    IF HasKey(cmds, Key("confirmed")) THEN FALSE
    ELSE IF HasKey(cmds, Key("confirm")) THEN TRUE
    ELSE IF st \in {"ASSIGNED", "NEW", "UNCONFIRMED", "REOPENED"} THEN TRUE
    ELSE FALSE

_needs_verify(cmds, st, res) ==
    IF HasKey(cmds, Key("verified")) THEN FALSE
    ELSE IF HasKey(cmds, Key("verify")) THEN TRUE
    ELSE IF st = "RESOLVED" /\ res = "FIXED" THEN TRUE
    ELSE FALSE

\* The list with the confirmation in it whatever the bug.
RequestedActionsConfirming(cmds, st, res) ==
    (IF _needs_verify(cmds, st, res) THEN <<"VERIFY_FIXED">> ELSE <<>>)
    \o <<"CONFIRM_OPEN">>
    \o (IF _needs_bisect(cmds) THEN <<"BISECT">> ELSE <<>>)

\* The list "actions" that process() builds.
RequestedActions(cmds, st, res) ==
    (IF _needs_verify(cmds, st, res) THEN <<"VERIFY_FIXED">> ELSE <<>>)
    \o (IF _needs_confirm(cmds, st) THEN <<"CONFIRM_OPEN">> ELSE <<>>)
    \o (IF _needs_bisect(cmds) THEN <<"BISECT">> ELSE <<>>)

-----------------------------------------------------------------------------
(* BugMonitor: the methods that change the monitor, as functions of the    *)
(* record m of its fields: wb (bug.whiteboard), status, keywords, flags,   *)
(* queue, close (_close_bug), err (an exception was raised) and bis (the   *)
(* calls of Bisector.bisect made so far in this run).                      *)

\* "x = v" followed by F(x): v is evaluated once.
Let(v, F(_)) == CHOOSE r \in {F(x) : x \in {v}} : TRUE

Cmds(m) == Monitor_commands(m.wb).d

report(m, messages) == [m EXCEPT !.queue = @ \o messages]

\* self.commands = value, on the record m.
SetCommands(m, value) ==
    Let(Monitor_set_commands(m.wb, value),
        LAMBDA r : [m EXCEPT !.wb = r.wb, !.err = r.err])

add_command(m, key, value) ==
    Let(Monitor_commands(m.wb),
        LAMBDA c : IF m.err \/ c.err THEN [m EXCEPT !.err = TRUE]
                   ELSE SetCommands(m, DictSet(c.d, key, value)))

remove_command(m, key) ==
    Let(Monitor_commands(m.wb),
        LAMBDA c : IF m.err \/ c.err THEN [m EXCEPT !.err = TRUE]
                   ELSE SetCommands(m, DictDel(c.d, key)))

\* The bounds with the two directions exchanged.
BisectBoundsExchanged(find_fix) ==
    IF find_fix
    THEN [find_fix |-> find_fix, start |-> "None", end |-> "initial_build_id"]
    ELSE [find_fix |-> find_fix, start |-> "initial_build_id", end |-> "latest"]

\* The search bounds _bisect() hands to Bisector.
BisectBounds(find_fix) ==
    IF ~find_fix
    THEN [find_fix |-> find_fix, start |-> "None", end |-> "initial_build_id"]
    ELSE [find_fix |-> find_fix, start |-> "initial_build_id", end |-> "latest"]

\* Lines 550-553 of _bisect(): the markers after bisector.bisect() returned.
BisectMarkers(m) ==
    Let(add_command(m, Key("bisected"), None),
        LAMBDA m1 : IF HasKey(Cmds(m1), Key("bisect"))
                    THEN remove_command(m1, Key("bisect")) ELSE m1)

\* _bisect(find_fix), result being the status bisector.bisect() returns.
_bisect(m, find_fix, result) ==
    Let([m EXCEPT !.bis = Append(@, BisectBounds(find_fix))],
        LAMBDA m1 :
          report(BisectMarkers(m1),
                 IF result # "SUCCESS"
                 THEN <<"Failed to bisect testcase", "> Start", "> End", "> BuildFlags">>
                 ELSE << IF find_fix THEN "The bug appears to have been fixed in range"
                                     ELSE "The bug appears to have been introduced in range",
                         "> Start", "> End", "> Pushlog" >>))

\* Lines 478-481 of _confirm_open().
ConfirmMarkers(m) ==
    Let(add_command(m, Key("confirmed"), None),
        LAMBDA m1 : IF HasKey(Cmds(m1), Key("confirm"))
                    THEN remove_command(m1, Key("confirm")) ELSE m1)

\* Whether _confirm_open() treats the initial build's result as "the
\* testcase crashes on the initial build".
OrigCrashed(orig) == orig = "CRASHED"

\* _confirm_open(baseline): orig is the status reproduce_bug() returns for
\* the initial build, result the bisector's status, old whether the last
\* change is more than 30 days back; each is read only where the code asks.
_confirm_open(m, base, orig, result, old) ==
    Let(IF base = "CRASHED"
        THEN IF ~HasKey(Cmds(m), Key("confirmed"))
             THEN _bisect(report(m, <<"Verified bug as reproducible">>), FALSE, result)
             ELSE IF old THEN report(m, <<"Bug remains reproducible">>) ELSE m
        ELSE IF base = "PASSED"
        THEN [ (IF OrigCrashed(orig)
                THEN _bisect(m, TRUE, result)
                ELSE report(m, <<"Unable to reproduce bug using the following builds:",
                                 "> baseline", "> orig">>))
               EXCEPT !.close = TRUE ]
        ELSE m,
        LAMBDA m1 : ConfirmMarkers(m1))

\* Whether _verify_fixed() treats the initial build's result as a crash.
InitialCrashed(initial) == initial = "CRASHED"

\* Lines 491-506 of _verify_fixed(): the check on the bug's own branch.
VerifyPrimary(m, base, initial) ==
    IF base = "PASSED"
    THEN [ (IF ~InitialCrashed(initial)
            THEN report(m, <<"Bug appears to be fixed but BugMon was unable to reproduce">>)
            ELSE [report(m, <<"Verified bug as fixed">>) EXCEPT !.status = "VERIFIED"])
           EXCEPT !.close = TRUE ]
    ELSE IF base = "CRASHED"
    THEN report(m, <<"Bug is marked as FIXED but still reproduces">>)
    ELSE m

\* The sweep that marks every fixed flag verified unless the build failed.
VerifyBranchNoCrash(m, alias, res) ==
    IF m.flags[alias] = "fixed"
    THEN IF res \in {"PASSED", "CRASHED"} THEN [m EXCEPT !.flags[alias] = "verified"]
         ELSE m
    ELSE m

\* Lines 515-522 of _verify_fixed(): one branch of the sweep, res being the
\* status reproduce_bug(alias) returns.
VerifyBranch(m, alias, res) ==
    IF m.flags[alias] = "fixed"
    THEN IF res = "PASSED" THEN [m EXCEPT !.flags[alias] = "verified"]
         ELSE IF res = "CRASHED" THEN [m EXCEPT !.flags[alias] = "affected"]
         ELSE m
    ELSE m

\* _verify_fixed(baseline): initial is the status reproduce_bug() returns
\* for the initial build, sw the statuses it returns in the sweep.
_verify_fixed(m, base, initial, sw) ==
    Let(VerifyPrimary(m, base, initial),
        LAMBDA m0 :
          Let(VerifyBranch(m0, BugMonitor_branches[1].alias, sw[BugMonitor_branches[1].alias]),
              LAMBDA m1 :
                Let(VerifyBranch(m1, BugMonitor_branches[2].alias, sw[BugMonitor_branches[2].alias]),
                    LAMBDA m2 :
                      VerifyBranch(m2, BugMonitor_branches[3].alias,
                                   sw[BugMonitor_branches[3].alias]))))

\* update() without its tests of dry_run.
MayWriteAlways(dry) == TRUE

\* Whether update() may write to the tracker.
MayWrite(dry) == ~dry

\* Bug.diff(): the fields that differ from the last-fetched copy.
Diff(m, t) ==
    {f \in {"whiteboard", "status", "keywords", "flags"} :
        \/ f = "whiteboard" /\ m.wb # t.wb
        \/ f = "status" /\ m.status # t.status
        \/ f = "keywords" /\ m.keywords # t.keywords
        \/ f = "flags" /\ m.flags # t.flags}

\* The closing applied whenever the keyword is present.
UpdateCloseUnmarked(m) ==
    IF "bugmon" \in m.keywords
    THEN report([m EXCEPT !.keywords = @ \ {"bugmon"}],
                <<"Removing bugmon keyword as no further action possible.",
                  "Please review the bug and re-add the keyword for further analysis.">>)
    ELSE m

\* Lines 684-690 of update(): the closing of the bug.
UpdateClose(m) ==
    IF m.close /\ "bugmon" \in m.keywords
    THEN report([m EXCEPT !.keywords = @ \ {"bugmon"}],
                <<"Removing bugmon keyword as no further action possible.",
                  "Please review the bug and re-add the keyword for further analysis.">>)
    ELSE m

-----------------------------------------------------------------------------
(* The workflow: state *)

Aliases == {"central", "beta", "release"}

ReproStatuses == {"NO_BUILD", "CRASHED", "PASSED", "FAILED"}
BisectStatuses == {"SUCCESS", "FAILED"}

\* The monitor's fields as one record, and back.
Self ==
    [wb |-> whiteboard, status |-> status, keywords |-> keywords, flags |-> flags,
     queue |-> queue, close |-> close_bug, err |-> FALSE, bis |-> run.bis]

SetSelf(m) ==
    /\ whiteboard' = m.wb
    /\ status' = m.status
    /\ keywords' = m.keywords
    /\ flags' = m.flags
    /\ queue' = m.queue
    /\ close_bug' = m.close

Snapshot(m) == [wb |-> m.wb, status |-> m.status, keywords |-> m.keywords, flags |-> m.flags]

\* The collaborators answer a request the same way each time it is made:
\* the answer is drawn when the request is first made and kept in oracle.
Answers(key, all) == IF oracle[key] = "unset" THEN all ELSE {oracle[key]}

\* reproduce_bug(): one Fetcher call, and one evaluator execution unless
\* the fetch failed (NO_BUILD).
Reproduced(r, key, res) ==
    [r EXCEPT !.fetches[key] = @ + 1,
              !.evals[key] = @ + (IF res = "NO_BUILD" THEN 0 ELSE 1)]

NoEvals == [k \in Aliases \cup {"initial"} |-> 0]

\* What run.upd holds before update() was called.
NoUpdate ==
    [called |-> FALSE, queue |-> <<>>, close |-> FALSE, keywords |-> {},
     diff |-> {}, put |-> FALSE, refresh |-> FALSE, comment |-> FALSE, body |-> <<>>]

\* What the messages queued since process() started are.
Reported(r, m) == SubSeq(m.queue, Len(r.start.queue) + 1, Len(m.queue))

BisectKey(find_fix) == IF find_fix THEN "bisect_fix" ELSE "bisect_intro"

-----------------------------------------------------------------------------
(* The workflow: process() *)

\* The test of lines 604-609 without its second half.
NoBuildOnly(res) == res = "NO_BUILD"

\* Lines 604-609 and 617-622: the tip reproduction gave no verdict.
BuildFailed(res) == res \in {"NO_BUILD", "FAILED"}

\* process() from its entry to the loop over the actions (lines 584-622):
\* the branch check, the action list and the two reproductions of the tip.
ProcessStart ==
    /\ pc = "idle"
    /\ run.n < MaxRuns
    /\ LET c == Monitor_commands(whiteboard)
           fresh == [run EXCEPT !.n = @ + 1, !.ran = <<>>, !.bis = <<>>, !.evals = NoEvals,
                                !.fetches = NoEvals, !.reported = <<>>,
                                !.start = [wb |-> whiteboard, status |-> status,
                                            keywords |-> keywords, flags |-> flags,
                                            queue |-> queue, close |-> close_bug],
                                !.prev = run.ended, !.ended = "none", !.upd = NoUpdate]
       IN  IF BugMonitor_branch(version) = "None"
           THEN \* report() is handed a list: it is queued, then list.splitlines()
                \* raises AttributeError
                /\ queue' = Append(queue, "[Bug filed against non-supported branch]")
                /\ pc' = "raised"
                /\ run' = [fresh EXCEPT !.reported = <<"[Bug filed against non-supported branch]">>,
                                        !.ended = "raised"]
                /\ UNCHANGED <<actions, ai, baseline, oracle>>
           ELSE IF c.err
           THEN /\ pc' = "raised"
                /\ run' = [fresh EXCEPT !.ended = "raised"]
                /\ UNCHANGED <<queue, actions, ai, baseline, oracle>>
           ELSE \E acts \in {RequestedActions(c.d, status, resolution)} :
                  IF Len(acts) = 0
                  THEN /\ pc' = "idle"
                       /\ run' = [fresh EXCEPT !.ended = "nothing"]
                       /\ UNCHANGED <<queue, actions, ai, baseline, oracle>>
                  ELSE \E res \in Answers("central", ReproStatuses) :
                         /\ oracle' = [oracle EXCEPT !["central"] = res]
                         /\ queue' = queue
                         /\ IF BuildFailed(res)
                            THEN \* line 605 or 608: return
                                 /\ pc' = "idle"
                                 /\ run' = [Reproduced(fresh, "central", res)
                                                EXCEPT !.ended = "build_failure"]
                                 /\ UNCHANGED <<actions, ai, baseline>>
                            ELSE \* line 616: reproduce_bug() once more
                                 /\ pc' = "action"
                                 /\ actions' = acts
                                 /\ ai' = 1
                                 /\ baseline' = res
                                 /\ run' = Reproduced(Reproduced(fresh, "central", res),
                                                      "central", res)
    /\ UNCHANGED <<lastOp, bugVars, tracker, close_bug, dry_run, ctorVars>>

\* Where process() goes after the action at position ai.
AfterAction(m) ==
    IF m.err THEN "raised" ELSE IF ai + 1 > Len(actions) THEN "update" ELSE "action"

\* The answers of reproduce_bug(alias) in the sweep: drawn for the branches
\* the sweep asks about, "none" for the others.
SweepAnswers ==
    {sw \in [Aliases -> ReproStatuses \cup {"none"}] :
        \A a \in Aliases :
            IF flags[a] = "fixed" THEN sw[a] \in Answers(a, ReproStatuses)
            ELSE sw[a] = "none"}

\* Lines 625-626: _verify_fixed(baseline).
VerifyFixed ==
    /\ pc = "action"
    /\ actions[ai] = "VERIFY_FIXED"
    /\ \E initial \in Answers("initial", ReproStatuses), sw \in SweepAnswers :
         \E m \in {_verify_fixed(Self, baseline, initial, sw)} :
         LET asked == baseline = "PASSED"
             o1 == IF asked THEN [oracle EXCEPT !["initial"] = initial] ELSE oracle
             r1 == IF asked THEN Reproduced(run, "initial", initial) ELSE run
         IN  /\ SetSelf(m)
             /\ oracle' = [k \in DOMAIN o1 |->
                              IF k \in Aliases /\ sw[k] # "none" THEN sw[k] ELSE o1[k]]
             /\ run' = [r1 EXCEPT !.ran = Append(@, "VERIFY_FIXED"),
                                  !.reported = Reported(run, m),
                                  !.fetches = [k \in DOMAIN r1.fetches |->
                                               IF k \in Aliases /\ sw[k] # "none"
                                               THEN r1.fetches[k] + 1 ELSE r1.fetches[k]],
                                  !.evals = [k \in DOMAIN r1.evals |->
                                               IF k \in Aliases /\ sw[k] \notin {"none", "NO_BUILD"}
                                               THEN r1.evals[k] + 1 ELSE r1.evals[k]]]
             /\ pc' = AfterAction(m)
    /\ ai' = ai + 1
    /\ UNCHANGED <<lastOp, resolution, version, tracker, dry_run, ctorVars, actions, baseline>>

\* Lines 627-628: _confirm_open(baseline).
ConfirmOpen ==
    /\ pc = "action"
    /\ actions[ai] = "CONFIRM_OPEN"
    /\ \E orig \in Answers("initial", ReproStatuses),
          result \in Answers(BisectKey(baseline = "PASSED"), BisectStatuses),
          old \in {record.last_change = "old"} :
         \E m \in {_confirm_open(Self, baseline, orig, result, old)} :
         LET asked == baseline = "PASSED"
             bisected == Len(m.bis) > Len(run.bis)
             o1 == IF asked THEN [oracle EXCEPT !["initial"] = orig] ELSE oracle
         IN  /\ SetSelf(m)
             /\ oracle' = IF bisected
                          THEN [o1 EXCEPT ![BisectKey(baseline = "PASSED")] = result]
                          ELSE o1
             /\ run' = [(IF asked THEN Reproduced(run, "initial", orig) ELSE run)
                            EXCEPT !.ran = Append(@, "CONFIRM_OPEN"),
                                   !.bis = m.bis,
                                   !.bisected = @ \/ Len(m.bis) > Len(run.bis),
                                   !.reported = Reported(run, m)]
             /\ pc' = AfterAction(m)
    /\ ai' = ai + 1
    /\ UNCHANGED <<lastOp, resolution, version, tracker, dry_run, ctorVars, actions, baseline>>

\* Lines 629-630: _bisect(baseline.status == PASSED).
BisectAction ==
    /\ pc = "action"
    /\ actions[ai] = "BISECT"
    /\ \E result \in Answers(BisectKey(baseline = "PASSED"), BisectStatuses) :
         \E m \in {_bisect(Self, baseline = "PASSED", result)} :
             /\ SetSelf(m)
             /\ oracle' = [oracle EXCEPT ![BisectKey(baseline = "PASSED")] = result]
             /\ run' = [run EXCEPT !.ran = Append(@, "BISECT"),
                                   !.bis = m.bis,
                                   !.bisected = @ \/ Len(m.bis) > Len(run.bis),
                                   !.reported = Reported(run, m)]
             /\ pc' = AfterAction(m)
    /\ ai' = ai + 1
    /\ UNCHANGED <<lastOp, resolution, version, tracker, dry_run, ctorVars, actions, baseline>>

-----
(* The workflow: update() *)

\* update(): the closing, the diff and the tracker writes.  r is the
\* history to extend.
DoUpdate(r) ==
    \E m \in {UpdateClose(Self)} :
    LET d == Diff(m, tracker)
        write == MayWrite(dry_run)
    IN  /\ SetSelf([m EXCEPT !.queue = IF write THEN <<>> ELSE m.queue])
        /\ tracker' = IF d # {} /\ write THEN Snapshot(m) ELSE tracker
        /\ run' = [r EXCEPT !.upd = [called |-> TRUE, queue |-> queue, close |-> close_bug,
                                     keywords |-> keywords, diff |-> d,
                                     put |-> d # {} /\ write,
                                     refresh |-> d # {} /\ write,
                                     comment |-> write,
                                     body |-> IF write THEN m.queue ELSE <<>>]]

\* Line 635: process() ends with self.update() and returns.
UpdateStep ==
    /\ pc = "update"
    /\ DoUpdate([run EXCEPT !.ended = "updated",
                            !.reported = Reported(run, UpdateClose(Self))])
    /\ pc' = "idle"
    /\ actions' = <<>>
    /\ ai' = 0
    /\ baseline' = "none"
    /\ UNCHANGED <<lastOp, resolution, version, dry_run, ctorVars, oracle>>

\* update() called by the driver.
UpdateCall ==
    /\ pc = "idle"
    /\ DoUpdate(run)
    /\ pc' = "idle"
    /\ UNCHANGED <<lastOp, resolution, version, dry_run, ctorVars, stepVars, oracle>>

-----------------------------------------------------------------------------
(* BugMonitor.__init__() and fetch_attachments() *)

\* What an attachment is to fetch_attachments(): data that base64 cannot
\* decode; a file; a file whose name or description starts with "testcase";
\* a .zip with no, one or two members named testcase*; a .zip that
\* zipfile cannot open.
Contents ==
    {"undecodable", "file", "testcase_file", "zip", "zip_testcase", "zip_testcases",
     "bad_zip"}

Decodes(a) == a.content # "undecodable"

IsZipName(a) == a.content \in {"zip", "zip_testcase", "zip_testcases", "bad_zip"}

OpensAsZip(a) == a.content # "bad_zip"

\* The members of z.namelist() whose name starts with "testcase".
ZipTestcases(a) ==
    IF a.content = "zip_testcase" THEN 1 ELSE IF a.content = "zip_testcases" THEN 2 ELSE 0

NamedTestcase(a) == a.content = "testcase_file"

\* fetch_attachments() from the attachment at position i of the list sorted
\* by creation_time, tc being self.testcase (0 for None): self.testcase at
\* the end, or raised for "Multiple testcases identified!".
RECURSIVE fetch_attachments(_, _, _)
fetch_attachments(atts, i, tc) ==
    IF i > Len(atts) THEN [testcase |-> tc, raised |-> FALSE]
    ELSE IF atts[i].is_obsolete \/ ~Decodes(atts[i]) THEN fetch_attachments(atts, i+1, tc)
    ELSE IF IsZipName(atts[i])
    THEN IF ~OpensAsZip(atts[i]) \/ ZipTestcases(atts[i]) = 0
         THEN fetch_attachments(atts, i+1, tc)
         ELSE IF tc # 0 \/ ZipTestcases(atts[i]) > 1
         THEN [testcase |-> tc, raised |-> TRUE]
         ELSE fetch_attachments(atts, i+1, i)
    ELSE IF NamedTestcase(atts[i])
    THEN IF tc # 0 THEN [testcase |-> tc, raised |-> TRUE]
         ELSE fetch_attachments(atts, i+1, i)
    ELSE fetch_attachments(atts, i+1, tc)

\* Line 105: "if self.testcase is None".
TestcaseMissing(tc) == tc = 0

\* BugMonitor(bugsy, bug_num, working_dir, dry_run): lines 88-106.  Either
\* exception leaves the caller without a monitor.
Construct ==
    /\ pc = "new"
    /\ \E r \in {fetch_attachments(attachments, 1, 0)} :
         IF r.raised
         THEN /\ pc' = "raised"
              /\ run' = [run EXCEPT !.ended = "multiple_testcases"]
              /\ UNCHANGED testcase
         ELSE IF TestcaseMissing(r.testcase)
         THEN /\ pc' = "raised"
              /\ run' = [run EXCEPT !.ended = "no_testcase"]
              /\ UNCHANGED testcase
         ELSE /\ pc' = "idle"
              /\ testcase' = r.testcase
              /\ UNCHANGED run
    /\ UNCHANGED <<lastOp, bugVars, tracker, selfVars, attachments, record, stepVars, oracle>>

-----------------------------------------------------------------------------
(* The commands properties, applied to a whiteboard *)

\* bug.commands = value through the property of BugMonitor.
MonitorSet(value) ==
    /\ pc = "codec"
    /\ lastOp.name = "none"
    /\ \E r \in {Monitor_set_commands(whiteboard, value)} :
         /\ whiteboard' = r.wb
         /\ lastOp' = [name |-> "set", impl |-> "BugMonitor", value |-> value,
                       before |-> whiteboard, err |-> r.err]
    /\ UNCHANGED <<pc, status, resolution, keywords, flags, version, tracker, selfVars,
                   ctorVars, stepVars, oracle, run>>

\* bug.commands = value through the property of EnhancedBug.
EnhancedSet(value) ==
    /\ pc = "codec"
    /\ lastOp.name = "none"
    /\ \E r \in {Enhanced_set_commands(whiteboard, value)} :
         /\ whiteboard' = r.wb
         /\ lastOp' = [name |-> "set", impl |-> "EnhancedBug", value |-> value,
                       before |-> whiteboard, err |-> r.err]
    /\ UNCHANGED <<pc, status, resolution, keywords, flags, version, tracker, selfVars,
                   ctorVars, stepVars, oracle, run>>

\* remove_command(key) of BugMonitor.
MonitorRemove(key) ==
    /\ pc = "codec"
    /\ lastOp.name = "none"
    /\ \E m \in {remove_command(Self, key)} :
         /\ whiteboard' = m.wb
         /\ lastOp' = [name |-> "remove", impl |-> "BugMonitor", value |-> key,
                       before |-> whiteboard, err |-> m.err]
    /\ UNCHANGED <<pc, status, resolution, keywords, flags, version, tracker, selfVars,
                   ctorVars, stepVars, oracle, run>>

\* The getter of the class named impl.
Decode(impl, wb) == IF impl = "BugMonitor" THEN Monitor_commands(wb) ELSE Enhanced_commands(wb)

\* Reading bug.commands through the property of the class named impl.
GetCommands(impl) ==
    /\ pc = "codec"
    /\ lastOp.name = "none"
    /\ \E r \in {Decode(impl, whiteboard)} :
         lastOp' = [name |-> "get", impl |-> impl, value |-> r.d, before |-> whiteboard,
                    err |-> r.err]
    /\ UNCHANGED <<pc, bugVars, tracker, selfVars, ctorVars, stepVars, oracle, run>>

-----
(* The workflow: initial states *)

CommandWords == <<"verify", "confirm", "bisect", "verified", "confirmed", "bisected">>

Range(s) == {s[i] : i \in DOMAIN s}

\* The commands of a set of words, in the order of CommandWords.
WordDict(S) ==
    LET ws == SelectSeq(CommandWords, LAMBDA w : w \in S)
    IN  [i \in DOMAIN ws |-> [k |-> Key(ws[i]), v |-> None]]

\* A whiteboard that holds the words S: empty, or text around one region.
WordBoard(S) ==
    IF S = {} THEN <<>>
    ELSE <<"a", Marker>> \o JoinParts(WordDict(S)) \o <<"]", "a">>

\* A whiteboard that ends in a marker nobody closed.
OpenBoard == <<"a", Marker>>

\* A whiteboard that holds the three marks the actions leave.
DoneBoard == WordBoard({"verified", "confirmed", "bisected"})

StatusPairs ==
    { <<"NEW", "">>, <<"RESOLVED", "FIXED">>, <<"RESOLVED", "WONTFIX">> }

AllStatuses ==
    {"UNCONFIRMED", "NEW", "ASSIGNED", "REOPENED", "RESOLVED", "VERIFIED", "CLOSED"}

\* run: the process() calls on this monitor (n); since process() was last
\* entered: the action classes run (ran), the bisector calls (bis), the
\* Fetcher calls and the evaluator executions by request (fetches, evals),
\* the messages queued (reported) and the bug at entry (start); whether
\* _bisect() ever ran (bisected); how this run and the one before it ended
\* (ended, prev); what the last update() saw and wrote (upd).
NoRun ==
    [n |-> 0, ran |-> <<>>, bis |-> <<>>, bisected |-> FALSE, evals |-> NoEvals,
     fetches |-> NoEvals,
     reported |-> <<>>, prev |-> "none", ended |-> "none",
     start |-> [wb |-> <<>>, status |-> "", keywords |-> {}, flags |-> <<>>,
                queue |-> <<>>, close |-> FALSE],
     upd |-> NoUpdate]

NoOp == [name |-> "none", impl |-> "none", value |-> <<>>, before |-> <<>>, err |-> FALSE]

UnsetOracle ==
    [k \in Aliases \cup {"initial", "bisect_fix", "bisect_intro"} |-> "unset"]

\* A bug filed on 2021-03-04 with an empty first comment and no field
\* beyond those the other variables hold.  last_change says how
\* last_change_time compares with now minus 30 days: "recent" or "old";
\* client is the tracker client _bugsy: "bugsy", or "None" for a cached bug.
NoRecord ==
    [fields |-> <<>>, copy |-> <<>>,
     creation_time |-> <<"2021-03-04", "T", "10:00:00Z">>,
     comment_zero |-> <<>>,
     last_change |-> "recent",
     client |-> "bugsy"]

\* What every monitor starts with: the copy of the bug the tracker holds,
\* an empty queue, no closing.
InitMonitor ==
    /\ lastOp = NoOp
    /\ keywords = {"bugmon"}
    /\ tracker = [wb |-> whiteboard, status |-> status, keywords |-> keywords, flags |-> flags]
    /\ queue = <<>>
    /\ close_bug = FALSE
    /\ actions = <<>>
    /\ ai = 0
    /\ baseline = "none"
    /\ oracle = UnsetOracle
    /\ run = NoRun

Unflagged == [a \in Aliases |-> "unaffected"]

\* A bug whose testcase the constructor found.  The driver picks the bugs
\* that carry the keyword bugmon.  The per-branch flags are read by
\* _verify_fixed() only: at most MaxFixed of them are "fixed", and only
\* where verify is eligible.  A bug whose branch does not resolve is read
\* no further than its version.  The age of the last change is read by
\* _confirm_open() only, and only under confirmed.  A bug that carries
\* verified, confirmed and bisected comes with any status.
Init ==
    /\ pc = "idle"
    /\ \/ \E S \in SUBSET Range(CommandWords) :
            Cardinality(S) <= MaxCmds /\ whiteboard = WordBoard(S)
       \/ whiteboard = OpenBoard
       \/ whiteboard = DoneBoard
    /\ \/ \E sp \in StatusPairs : status = sp[1] /\ resolution = sp[2]
       \/ /\ whiteboard = DoneBoard
          /\ status \in AllStatuses
          /\ resolution = IF status \in {"RESOLVED", "VERIFIED", "CLOSED"} THEN "FIXED" ELSE ""
    /\ flags \in [Aliases -> {"fixed", "unaffected"}]
    /\ Cardinality({a \in Aliases : flags[a] = "fixed"}) <= MaxFixed
    /\ \/ _needs_verify(Monitor_commands(whiteboard).d, status, resolution)
       \/ whiteboard = DoneBoard
       \/ flags = Unflagged
    /\ version \in {[numeric |-> FALSE, n |-> 0], [numeric |-> TRUE, n |-> CentralVersion],
                    [numeric |-> TRUE, n |-> CentralVersion - MaxBehind]}
    /\ \/ ~version.numeric
       \/ /\ whiteboard = <<>>
          /\ flags = Unflagged
    /\ dry_run \in BOOLEAN
    /\ attachments = << [is_obsolete |-> FALSE, content |-> "testcase_file"] >>
    /\ testcase = 1
    /\ \E age \in {"recent", "old"} : record = [NoRecord EXCEPT !.last_change = age]
    /\ \/ record.last_change = "recent"
       \/ HasKey(Monitor_commands(whiteboard).d, Key("confirmed"))
    /\ InitMonitor

Next ==
    \/ ProcessStart
    \/ VerifyFixed
    \/ ConfirmOpen
    \/ BisectAction
    \/ UpdateStep
    \/ UpdateCall

Spec == Init /\ [][Next]_vars

-----------------------------------------------------------------------------
(* The constructor, then the workflow, on an open bug that asks for every  *)
(* action                                                                  *)

AttachmentLists ==
    UNION {[1..n -> [is_obsolete : BOOLEAN, content : Contents]] : n \in 0..MaxAttachments}

InitCtor ==
    /\ pc = "new"
    /\ whiteboard = WordBoard({"verify", "bisect"})
    /\ status = "NEW"
    /\ resolution = ""
    /\ flags = Unflagged
    /\ version = [numeric |-> FALSE, n |-> 0]
    /\ dry_run \in BOOLEAN
    /\ attachments \in AttachmentLists
    /\ testcase = 0
    /\ record = NoRecord
    /\ InitMonitor

NextCtor ==
    \/ Construct
    \/ Next

SpecCtor == InitCtor /\ [][NextCtor]_vars

-----------------------------------------------------------------------------
(* The commands properties on every whiteboard text up to MaxTextLen units *)

Units == {Marker, "]", ",", "=", "a"}

Texts == UNION {[1..n -> Units] : n \in 0..MaxTextLen}

CodecKeys == << <<"a">>, <<"b">> >>

\* The command sets with keys of CodecKeys, in that order, each with no
\* value or the value "a": non-empty keys, no "=", "," or "]".
CommandSets ==
    {d \in UNION {[1..n -> [k : Range(CodecKeys), v : {None, Some(<<"a">>)}]] :
                     n \in 0..MaxCmds} :
        \A i, j \in DOMAIN d :
            i < j => \E x, y \in DOMAIN CodecKeys : x < y /\ CodecKeys[x] = d[i].k
                                                       /\ CodecKeys[y] = d[j].k}

InitCodec ==
    /\ pc = "codec"
    /\ whiteboard \in Texts
    /\ status = "NEW"
    /\ resolution = ""
    /\ flags = Unflagged
    /\ version = [numeric |-> FALSE, n |-> 0]
    /\ dry_run = FALSE
    /\ attachments = <<>>
    /\ testcase = 0
    /\ record = NoRecord
    /\ InitMonitor

NextCodec ==
    \/ \E value \in CommandSets : MonitorSet(value)
    \/ \E value \in CommandSets : EnhancedSet(value)
    \/ \E key \in Range(CodecKeys) : MonitorRemove(key)
    \/ \E impl \in {"BugMonitor", "EnhancedBug"} : GetCommands(impl)

SpecCodec == InitCodec /\ [][NextCodec]_vars

-----------------------------------------------------------------------------
(* EnhancedBug: branch resolution (bugmon/bug.py) *)

\* The property version: the field when it holds an int, else
\* central_version.  For EnhancedBug v.numeric says that _bug["version"] is
\* the int v.n.
Enhanced_version(v) == IF v.numeric THEN IntVal(v.n) ELSE IntVal(CentralVersion)

\* The property branches, in insertion order; Fetcher.resolve_esr() is taken
\* to resolve no ESR alias.
Enhanced_branches ==
    << [alias |-> "central", rel_num |-> IntVal(CentralVersion)],
       [alias |-> "beta",    rel_num |-> IntVal(CentralVersion - 1)],
       [alias |-> "release", rel_num |-> IntVal(CentralVersion - 2)] >>

\* The property branch: the first alias whose number equals self.version.
Enhanced_branch(v) ==
    LET hits == {i \in DOMAIN Enhanced_branches :
                    Enhanced_branches[i].rel_num = Enhanced_version(v)}
    IN  IF hits = {} THEN "None"
        ELSE Enhanced_branches[CHOOSE i \in hits : \A j \in hits : i <= j].alias

-----------------------------------------------------------------------------
(* initial_build_id of both classes.  The first comment is the sequence of *)
(* its space-separated tokens, a token a sequence of units: a backtick, a  *)
(* "-", a 12-digit hexadecimal word, an 8-digit decimal word, or a word    *)
(* that is neither.                                                        *)

\* The unit that stands for the backtick character.
Tick == "backtick"

\* A revision hg.mozilla.org serves, and one it answers with 404.
KnownRev == "abcdef012345"
UnknownRev == "0123456789ab"
HexWords == {KnownRev, UnknownRev}
DateWords == {"20210304"}

\* _get_url(f"{HG_BASE}/{branch}/json-rev/{token}") returns; otherwise
\* raise_for_status() raises HTTPError.
HgServes(rev) == rev = KnownRev

\* re.match(r"^([a-f0-9]{12}|[a-f0-9]{40})$", token)
IsRev(token) == Len(token) = 1 /\ token[1] \in HexWords

\* re.match(r"^([0-9]{8}-)([a-f0-9]{12})$", token)
IsBid(token) ==
    Len(token) = 3 /\ token[1] \in DateWords /\ token[2] = "-" /\ token[3] \in HexWords

\* A token that starts and ends with a backtick loses both: token[1:-1].
StripTicks(token) ==
    IF Len(token) >= 1 /\ token[1] = Tick /\ token[Len(token)] = Tick
    THEN SubSeq(token, 2, Len(token) - 1)
    ELSE token

\* A result: err for an exception, else the string or list returned.
Raised == [err |-> TRUE, type |-> "none", v |-> <<>>]
StrResult(t) == [err |-> FALSE, type |-> "str", v |-> t]
ListResult(l) == [err |-> FALSE, type |-> "list", v |-> l]

\* self.creation_time.split("T")[0]
CreationDay(rec) == Split(rec.creation_time, "T")[1]

\* BugMonitor: the loop over self.comment_zero.split(" ") with its else.
RECURSIVE MonitorScan(_, _, _)
MonitorScan(tokens, i, rec) ==
    IF i > Len(tokens) THEN StrResult(CreationDay(rec))
    ELSE IF IsRev(StripTicks(tokens[i])) THEN StrResult(StripTicks(tokens[i]))
    ELSE IF IsBid(StripTicks(tokens[i]))
         THEN StrResult(Split(StripTicks(tokens[i]), "-")[2])
    ELSE MonitorScan(tokens, i + 1, rec)

\* BugMonitor.initial_build_id.  re.match() on the value None of a command
\* without "=" raises TypeError.
Monitor_initial_build_id(wb, rec) ==
    Let(Monitor_commands(wb),
        LAMBDA c :
            IF c.err THEN Raised
            ELSE IF HasKey(c.d, Key("origRev")) /\ DictGet(c.d, Key("origRev")) = None
                 THEN Raised
            ELSE IF HasKey(c.d, Key("origRev")) /\ IsRev(DictGet(c.d, Key("origRev"))[1])
                 THEN ListResult(<<"origRev">>)
            ELSE MonitorScan(rec.comment_zero, 1, rec))

\* re.findall(r"([A-Za-z0-9_-]+)", self.comment_zero): spaces and backticks
\* separate the tokens.
RECURSIVE FindAll(_)
FindAll(tokens) ==
    IF tokens = <<>> THEN <<>>
    ELSE SelectSeq(Split(Head(tokens), Tick), LAMBDA t : t # <<>>) \o FindAll(Tail(tokens))

\* EnhancedBug: the loop over the tokens with its else.  A revision that hg
\* does not serve is passed over.
RECURSIVE EnhancedScan(_, _, _)
EnhancedScan(tokens, i, rec) ==
    IF i > Len(tokens) THEN StrResult(CreationDay(rec))
    ELSE IF IsRev(StripTicks(tokens[i])) /\ HgServes(StripTicks(tokens[i])[1])
         THEN StrResult(StripTicks(tokens[i]))
    ELSE IF IsBid(StripTicks(tokens[i]))
         THEN StrResult(Split(StripTicks(tokens[i]), "-")[2])
    ELSE EnhancedScan(tokens, i + 1, rec)

\* EnhancedBug.initial_build_id.  self.commands.get("origRev", "") is None
\* for a command without "=", and re.match() raises TypeError on it.
Enhanced_initial_build_id(wb, rec) ==
    Let(Enhanced_commands(wb),
        LAMBDA c :
            IF c.err THEN Raised
            ELSE IF HasKey(c.d, Key("origRev")) /\ DictGet(c.d, Key("origRev")) = None
                 THEN Raised
            ELSE IF HasKey(c.d, Key("origRev")) /\ IsRev(DictGet(c.d, Key("origRev"))[1])
                 THEN EnhancedScan(<<DictGet(c.d, Key("origRev"))[1]>>, 1, rec)
            ELSE EnhancedScan(FindAll(rec.comment_zero), 1, rec))

-----------------------------------------------------------------------------
(* EnhancedBug: diff() and to_dict().  _bug and bugsy's _copy are functions *)
(* from the keys they hold to values.                                       *)

Pop(d, key) == [k \in DOMAIN d \ {key} |-> d[k]]

\* bugsy's Bug.diff(): the fields of _bug that _copy lacks or holds with
\* another value.
Bug_diff(b, c) ==
    [k \in {x \in DOMAIN b : x \notin DOMAIN c \/ b[x] # c[x]} |-> b[k]]

\* diff() without the two keys taken out.
Enhanced_diff_unstripped(b, c) == Bug_diff(b, c)

Enhanced_diff(b, c) == Pop(Pop(Bug_diff(b, c), "attachments"), "comments")

Enhanced_to_dict(b) ==
    [k \in {x \in DOMAIN b : x \notin {"attachments", "comments"}} |-> b[k]]

\* Bug.__setattr__ for an attribute outside LOCAL_ATTRS: _bug[attr] = value.
SetAttr(b, attr, value) ==
    [k \in DOMAIN b \cup {attr} |-> IF k = attr THEN value ELSE b[k]]

\* A record that is never taken for a cached one.
NeverCached(rec) == FALSE

\* self._bugsy is None
Cached(rec) == rec.client = "None"

\* What a call gives: the exception it raised ("none" without one), the
\* value it returned, and the record after it.
Outcome(raised, ret, rec) == [raised |-> raised, ret |-> ret, rec |-> rec]

\* EnhancedBug(bugsy, **kwargs): lines 65-70.  bugsy's Bug.__init__ keeps
\* kwargs as _bug and a copy of it as _copy.
Enhanced_init(rec, client, kwargs) ==
    IF client = "None" /\ ("attachments" \notin DOMAIN kwargs \/ "comments" \notin DOMAIN kwargs)
    THEN Outcome("BugException", "none", rec)
    ELSE Outcome("none", "none",
                 [rec EXCEPT !.client = client, !.fields = kwargs, !.copy = kwargs])

\* get_attachments() and get_comments(): the cached list, else what the
\* tracker answers.
Enhanced_get(rec, key, fetched) ==
    IF Cached(rec)
    THEN Outcome("none", IF key \in DOMAIN rec.fields THEN rec.fields[key] ELSE "empty", rec)
    ELSE Outcome("none", fetched, rec)

\* add_attachment() and add_comment(): with a client the tracker is
\* written, the record is not.
Enhanced_add(rec) ==
    IF Cached(rec) THEN Outcome("TypeError", "none", rec) ELSE Outcome("none", "none", rec)

\* update(): with a client the record is fetched again.
Enhanced_update(rec) ==
    IF Cached(rec) THEN Outcome("TypeError", "none", rec)
    ELSE Outcome("none", "none", [rec EXCEPT !.fields = rec.copy])

\* cache_bug(bug): a new record without client that holds to_dict() and
\* the attachments and comments the tracker answers.
Enhanced_cache_bug(rec, atts, coms) ==
    IF Cached(rec) THEN Outcome("TypeError", "none", rec)
    ELSE Let(SetAttr(SetAttr(Enhanced_to_dict(rec.fields), "attachments", atts),
                     "comments", coms),
             LAMBDA data : Enhanced_init(rec, "None", data))

-----------------------------------------------------------------------------
(* The properties applied to a bug, one call each *)

propFrame == <<pc, bugVars, tracker, selfVars, attachments, testcase, stepVars, oracle, run>>

Applied(name, impl, value) ==
    /\ pc = "props"
    /\ lastOp.name = "none"
    /\ lastOp' = [name |-> name, impl |-> impl, value |-> value, before |-> whiteboard,
                  err |-> FALSE]
    /\ UNCHANGED <<propFrame, record>>

NeedsConfirm ==
    /\ ~Monitor_commands(whiteboard).err
    /\ Applied("_needs_confirm", "BugMonitor", _needs_confirm(Monitor_commands(whiteboard).d, status))

MonitorBranch == Applied("branch", "BugMonitor", BugMonitor_branch(version))

EnhancedBranch == Applied("branch", "EnhancedBug", Enhanced_branch(version))

MonitorBuildId ==
    Applied("initial_build_id", "BugMonitor", Monitor_initial_build_id(whiteboard, record))

EnhancedBuildId ==
    Applied("initial_build_id", "EnhancedBug", Enhanced_initial_build_id(whiteboard, record))

\* A call on the EnhancedBug, in any order and number: what it returned or
\* raised, and the record before it.
Called(name, value, raised, rec) ==
    /\ pc = "record"
    /\ lastOp' = [name |-> name, impl |-> "EnhancedBug", value |-> value, before |-> record,
                  err |-> raised]
    /\ record' = rec
    /\ UNCHANGED propFrame

CalledOutcome(name, o) == Called(name, o.ret, o.raised, o.rec)

EnhancedSetAttr(attr, value) ==
    Called("__setattr__", value, "none", [record EXCEPT !.fields = SetAttr(@, attr, value)])

EnhancedDiff == Called("diff", Enhanced_diff(record.fields, record.copy), "none", record)

EnhancedToDict == Called("to_dict", Enhanced_to_dict(record.fields), "none", record)

EnhancedInit(client, kwargs) ==
    CalledOutcome("__init__", Enhanced_init(record, client, kwargs))

EnhancedGet(name, key, fetched) == CalledOutcome(name, Enhanced_get(record, key, fetched))

EnhancedAdd(name) == CalledOutcome(name, Enhanced_add(record))

EnhancedUpdate == CalledOutcome("update", Enhanced_update(record))

EnhancedCacheBug(atts, coms) ==
    CalledOutcome("cache_bug", Enhanced_cache_bug(record, atts, coms))

\* The versions a bug is filed against: the default, and the numbers from
\* the tip down to MaxBehind below it.
Versions ==
    {[numeric |-> FALSE, n |-> 0]}
        \cup {[numeric |-> TRUE, n |-> CentralVersion - d] : d \in 0..MaxBehind}

\* Whiteboards without origRev, with origRev and no value, with a value that
\* is no revision, and with a revision hg serves or does not serve.
OrigRevBoards ==
    { <<>>,
      <<Marker, "origRev", "]">>,
      <<Marker, "origRev", "=", "a", "]">>,
      <<Marker, "origRev", "=", KnownRev, "]">>,
      <<Marker, "origRev", "=", UnknownRev, "]">> }

CommentTokens ==
    { <<"a">>, <<KnownRev>>, <<UnknownRev>>, <<Tick, KnownRev, Tick>>,
      <<"20210304", "-", KnownRev>> }

Comments == UNION {[1..n -> CommentTokens] : n \in 0..MaxTokens}

CreationTimes ==
    { <<"2021-03-04", "T", "10:00:00Z">>, <<"2020-12-31", "T", "23:59:59Z">> }

FieldKeys == {"summary", "attachments", "comments"}
FieldVals == {"x", "y"}

Records == UNION {[K -> FieldVals] : K \in SUBSET FieldKeys}

\* A bug as the tracker returned it, in one of two families: the commands,
\* status and version vary; the origRev command, the first comment and the
\* creation time vary.
InitProps ==
    /\ pc = "props"
    /\ resolution = ""
    /\ flags = Unflagged
    /\ dry_run = FALSE
    /\ attachments = <<>>
    /\ testcase = 0
    /\ \/ /\ \E S \in SUBSET Range(CommandWords) :
                 Cardinality(S) <= MaxCmds /\ whiteboard = WordBoard(S)
          /\ status \in AllStatuses
          /\ version \in Versions
          /\ record = NoRecord
       \/ /\ whiteboard \in OrigRevBoards
          /\ status = "NEW"
          /\ version = [numeric |-> FALSE, n |-> 0]
          /\ \E ct \in CreationTimes, cz \in Comments :
                 record = [NoRecord EXCEPT !.creation_time = ct, !.comment_zero = cz]
    /\ InitMonitor

NextProps ==
    \/ NeedsConfirm
    \/ MonitorBranch
    \/ EnhancedBranch
    \/ MonitorBuildId
    \/ EnhancedBuildId

SpecProps == InitProps /\ [][NextProps]_vars

-----------------------------------------------------------------------------
(* The calls on an EnhancedBug record *)

\* A bug as the tracker returned it: _copy equals _bug, with any of the
\* fields.
InitRecord ==
    /\ pc = "record"
    /\ whiteboard = <<>>
    /\ status = "NEW"
    /\ resolution = ""
    /\ flags = Unflagged
    /\ version = [numeric |-> FALSE, n |-> 0]
    /\ dry_run = FALSE
    /\ attachments = <<>>
    /\ testcase = 0
    /\ \E f \in Records : record = [NoRecord EXCEPT !.fields = f, !.copy = f]
    /\ InitMonitor

NextRecord ==
    \/ \E attr \in FieldKeys, value \in FieldVals : EnhancedSetAttr(attr, value)
    \/ EnhancedDiff
    \/ EnhancedToDict
    \/ \E client \in {"bugsy", "None"}, kwargs \in Records : EnhancedInit(client, kwargs)
    \/ \E fetched \in FieldVals : EnhancedGet("get_attachments", "attachments", fetched)
    \/ \E fetched \in FieldVals : EnhancedGet("get_comments", "comments", fetched)
    \/ EnhancedAdd("add_attachment")
    \/ EnhancedAdd("add_comment")
    \/ EnhancedUpdate
    \/ \E atts \in FieldVals, coms \in FieldVals : EnhancedCacheBug(atts, coms)

SpecRecord == InitRecord /\ [][NextRecord]_vars

-----------------------------------------------------------------------------
(* The claims *)

RunDone == pc = "idle" /\ run.ended = "updated"

StartCmds == Monitor_commands(run.start.wb).d

NowCmds == Monitor_commands(whiteboard).d

Count(s, x) == Cardinality({i \in DOMAIN s : s[i] = x})

IsPrefix(s, t) == Len(s) <= Len(t) /\ SubSeq(t, 1, Len(s)) = s

IsSuffix(s, t) == Len(s) <= Len(t) /\ SubSeq(t, Len(t) - Len(s) + 1, Len(t)) = s

\* C1: in a process() run at most one of the action classes verify-fixed,
\* confirm-open and bisect is executed, and it is the first eligible one in
\* the order verify, confirm, bisect.
C1_OneActionClassPerRun ==
    /\ Len(run.ran) <= 1
    /\ run.ran # <<>> =>
         run.ran[1] = RequestedActions(StartCmds, run.start.status, resolution)[1]

\* C2: when a run in which confirm-open executed ends, the tip having
\* crashed and `confirmed` having been absent at the start, the bisector was
\* invoked exactly once, with find_fix = false, and the commands hold
\* `confirmed` and not `confirm`.
C2_ConfirmOpenBisectsOnce ==
    ( /\ RunDone
      /\ Contains(run.ran, "CONFIRM_OPEN")
      /\ oracle["central"] = "CRASHED"
      /\ ~HasKey(StartCmds, Key("confirmed")) )
    => /\ run.bis = << BisectBounds(FALSE) >>
       /\ HasKey(NowCmds, Key("confirmed"))
       /\ ~HasKey(NowCmds, Key("confirm"))

\* C3: a process() run executes the evaluator on the tip build of the bug's
\* branch at most once.
C3_TipEvaluatedOnce == run.evals["central"] <= 1

\* C4: a process() run on the bug state that an earlier, committed run left
\* behind, with the same collaborator outcomes, queues no finding, invokes
\* no bisect and changes no command.
C4_ReentryIdempotent ==
    ( /\ ~dry_run
      /\ run.prev = "updated"
      /\ pc = "idle"
      /\ run.ended \in {"updated", "nothing", "build_failure"} )
    => /\ run.reported = <<>>
       /\ run.bis = <<>>
       /\ DictEq(NowCmds, StartCmds)

\* C5: after a run of verify-fixed alone on a RESOLVED/FIXED bug whose tip
\* Passed and whose initial build Crashed, the status is VERIFIED, the
\* finding that confirms the fix was queued exactly once, and the bug is
\* marked for closure only if no branch flag that was `fixed` still is.
C5_VerifiedClosesAfterSweep ==
    ( /\ RunDone
      /\ run.ran = <<"VERIFY_FIXED">>
      /\ run.start.status = "RESOLVED"
      /\ resolution = "FIXED"
      /\ oracle["central"] = "PASSED"
      /\ oracle["initial"] = "CRASHED" )
    => /\ status = "VERIFIED"
       /\ Count(run.reported, "Verified bug as fixed") = 1
       /\ close_bug => \A a \in Aliases : run.start.flags[a] = "fixed" => flags[a] # "fixed"

\* C6: a reproduction of the initial build that ends NO_BUILD or FAILED
\* causes no "unable to reproduce" or "appears to be fixed" finding and does
\* not mark the bug for closure.
C6_BuildFailureIsNoVerdict ==
    ( /\ run.fetches["initial"] > 0
      /\ oracle["initial"] \in {"NO_BUILD", "FAILED"} )
    => /\ ~Contains(run.reported, "Unable to reproduce bug using the following builds:")
       /\ ~Contains(run.reported,
                    "Bug appears to be fixed but BugMon was unable to reproduce")
       /\ close_bug = run.start.close

\* C7: with dry_run set, no process() or update() call makes update() call
\* bugsy.put, bug.update or bug.add_comment.
C7_DryRunWritesNothing ==
    dry_run =>
      /\ ~run.upd.put
      /\ ~run.upd.refresh
      /\ ~run.upd.comment

\* A dry-run update() that had a closing, a changed bug and findings to post.
C7_Witness ==
    /\ dry_run
    /\ run.upd.called
    /\ run.upd.close
    /\ run.upd.diff # {}
    /\ queue # <<>>

\* C8: once _bisect() has run, whatever the bisector returned and for either
\* find_fix, the commands hold `bisected` and not `bisect`, and
\* _needs_bisect() is false, in that run and in the later ones.
C8_BisectMarksBisected ==
    run.bisected =>
      /\ HasKey(NowCmds, Key("bisected"))
      /\ ~HasKey(NowCmds, Key("bisect"))
      /\ ~_needs_bisect(NowCmds)

\* C9: when the constructor finds no testcase, a help-pointer finding is
\* queued and the bug is marked for closure, and no build is fetched and no
\* evaluator executed.
C9_MissingTestcaseIsReported ==
    (pc # "new" /\ fetch_attachments(attachments, 1, 0) = [testcase |-> 0, raised |-> FALSE])
    => /\ queue # <<>>
       /\ close_bug
       /\ \A k \in DOMAIN run.fetches : run.fetches[k] = 0

\* What lies outside the first [bugmon:...] region of the text before is in
\* the text after: the part before the marker at the front, the part after
\* the closing bracket at the back; a text with no marker is kept whole.
OutsideKept(before, after) ==
    LET i == IndexOf(before, Marker)
        j == RunEnd(before, i + 1)
    IN  IF i = 0 THEN IsPrefix(before, after) \/ IsSuffix(before, after)
        ELSE /\ IsPrefix(SubSeq(before, 1, i - 1), after)
             /\ IsSuffix(SubSeq(before, j + 1, Len(before)), after)
             /\ Len(after) >= (i - 1) + (Len(before) - j)

\* Every marker of the text opens a region that a "]" closes before the
\* next marker.
RECURSIVE Bracketed(_, _)
Bracketed(t, i) ==
    IF i > Len(t) THEN TRUE
    ELSE IF t[i] # Marker THEN Bracketed(t, i + 1)
    ELSE /\ RunEnd(t, i + 1) <= Len(t)
         /\ \A j \in (i + 1)..RunEnd(t, i + 1) : t[j] # Marker
         /\ Bracketed(t, RunEnd(t, i + 1) + 1)

\* C10: on a whiteboard with no, one or several [bugmon:...] regions,
\* assigning a command set through the commands setter of either class and
\* reading commands back yields that set, and the text outside the first
\* region is unchanged.
C10_CodecRoundTrip ==
    (lastOp.name = "set" /\ Bracketed(lastOp.before, 1)) =>
      /\ ~lastOp.err
      /\ ~Decode(lastOp.impl, whiteboard).err
      /\ DictEq(Decode(lastOp.impl, whiteboard).d, lastOp.value)
      /\ OutsideKept(lastOp.before, whiteboard)

\* The text without its first region: marker, content and closing bracket.
WithoutRegion(t) ==
    SubSeq(t, 1, IndexOf(t, Marker) - 1)
        \o SubSeq(t, RunEnd(t, IndexOf(t, Marker) + 1) + 1, Len(t))

\* The operation left no command: an empty set was assigned, or
\* remove_command took the last key.
EmptiedCommands ==
    /\ ~lastOp.err
    /\ \/ lastOp.name = "set" /\ lastOp.value = <<>>
       \/ /\ lastOp.name = "remove"
          /\ Len(Decode(lastOp.impl, lastOp.before).d) = 1
          /\ HasKey(Decode(lastOp.impl, lastOp.before).d, lastOp.value)

\* C11: on a whiteboard with one [bugmon:...] region, assigning the empty
\* command set (directly, or by remove_command on the last key) removes the
\* region with its marker and brackets, keeps the text around it, and the
\* commands read afterwards are empty; for both classes.
C11_EmptySetRemovesRegion ==
    (EmptiedCommands /\ Count(lastOp.before, Marker) = 1 /\ Bracketed(lastOp.before, 1))
    => /\ whiteboard = WithoutRegion(lastOp.before)
       /\ ~Decode(lastOp.impl, whiteboard).err
       /\ Decode(lastOp.impl, whiteboard).d = <<>>

\* C12: a committing update() posts a tracker comment only when the finding
\* queue holds a line at that point, reached from process() or called
\* directly; with an empty queue no comment is posted.
C12_CommentOnlyWithFindings ==
    (run.upd.called /\ ~dry_run) => (run.upd.comment <=> run.upd.body # <<>>)

\* C13: once update() has returned the finding queue is empty, in normal
\* mode and in dry-run mode alike.
C13_QueueEmptyAfterUpdate ==
    (pc = "idle" /\ run.upd.called) => queue = <<>>

\* C14: _needs_confirm() is true for status NEW with no command; it is
\* false whenever confirmed is among the commands, for every status, with
\* or without confirm; without confirmed it is true exactly when confirm is
\* present or the status is ASSIGNED, NEW, UNCONFIRMED or REOPENED.
C14_NeedsConfirmTable ==
    lastOp.name = "_needs_confirm" =>
        /\ (status = "NEW" /\ NowCmds = <<>>) => lastOp.value
        /\ HasKey(NowCmds, Key("confirmed")) => ~lastOp.value
        /\ ~HasKey(NowCmds, Key("confirmed")) =>
               (lastOp.value <=> \/ HasKey(NowCmds, Key("confirm"))
                                 \/ status \in {"ASSIGNED", "NEW", "UNCONFIRMED", "REOPENED"})

\* _needs_confirm() was asked on a reopened bug that carries both confirm
\* and confirmed, and answered no.
C14_Witness ==
    /\ lastOp.name = "_needs_confirm"
    /\ status = "REOPENED"
    /\ HasKey(NowCmds, Key("confirm"))
    /\ HasKey(NowCmds, Key("confirmed"))
    /\ ~lastOp.value

\* The branch the table central -> V, beta -> V-1, release -> V-2 gives a
\* recorded version.
TableBranch(v) ==
    IF ~v.numeric \/ v.n = CentralVersion THEN "central"
    ELSE IF v.n = CentralVersion - 1 THEN "beta"
    ELSE IF v.n = CentralVersion - 2 THEN "release"
    ELSE "None"

\* C15: the branch property of BugMonitor and of EnhancedBug resolves the
\* version V, V-1, V-2 to central, beta, release, a non-numeric version to
\* central, and leaves the branch undefined for any other number.
C15_BranchResolution ==
    lastOp.name = "branch" => lastOp.value = TableBranch(version)

\* No origRev command holds a revision, and no token of the first comment
\* is a revision hg serves or a build identifier.
NoBuildIdToken ==
    /\ ~Decode(lastOp.impl, whiteboard).err
    /\ LET d == Decode(lastOp.impl, whiteboard).d
       IN  HasKey(d, Key("origRev")) =>
               \/ DictGet(d, Key("origRev")) = None
               \/ ~IsRev(DictGet(d, Key("origRev"))[1])
    /\ \A i \in DOMAIN record.comment_zero :
           LET t == StripTicks(record.comment_zero[i])
           IN  ~(IsRev(t) /\ HgServes(t[1])) /\ ~IsBid(t)

\* C16: without a valid origRev command and without a confirmed revision or
\* a build identifier in the first comment, initial_build_id of either
\* class is the creation time up to its "T".
C16_BuildIdFallsBackToDay ==
    (lastOp.name = "initial_build_id" /\ NoBuildIdToken) =>
        /\ ~lastOp.value.err
        /\ lastOp.value.type = "str"
        /\ ~Contains(lastOp.value.v, "T")
        /\ IsPrefix(lastOp.value.v \o <<"T">>, record.creation_time)

\* C17: after any sequence of field assignments on an EnhancedBug, what
\* diff() and to_dict() return holds neither attachments nor comments,
\* whether the record holds them or they differ from the fetched copy.
C17_NoAttachmentsOrComments ==
    lastOp.name \in {"diff", "to_dict"} =>
        DOMAIN lastOp.value \cap {"attachments", "comments"} = {}

\* diff() was called on a record whose attachments and comments both differ
\* from the fetched copy, together with a field that diff() reports.
C17_Witness ==
    /\ lastOp.name = "diff"
    /\ {"attachments", "comments"} \subseteq DOMAIN Bug_diff(record.fields, record.copy)
    /\ DOMAIN lastOp.value = {"summary"}

\* A step that is a whole call of update().
IsUpdate == pc \in {"update", "idle"} /\ pc' = "idle" /\ run'.upd.called

StandingNote ==
    <<"Removing bugmon keyword as no further action possible.",
      "Please review the bug and re-add the keyword for further analysis.">>

\* What update() flushed: the comment it posted, or in dry-run mode the
\* queue it left.
Flushed(u, q) == IF u.comment THEN u.body ELSE q

C19_UnsupportedBranchCloses ==
    (run.ended # "none" /\ BugMonitor_branch(version) = "None") =>
        /\ pc = "idle"
        /\ run.ended = "updated"
        /\ Contains(run.reported, "[Bug filed against non-supported branch]")
        /\ close_bug
        /\ run.upd.called
        /\ "bugmon" \notin keywords
        /\ run.bis = <<>>
        /\ \A k \in DOMAIN run.fetches : run.fetches[k] = 0 /\ run.evals[k] = 0

\* C20: a verify-fixed run whose tip reproduction crashed queues the
\* finding that the bug still reproduces, sets the status to REOPENED, and
\* leaves commands under which _needs_confirm() is true.
C20_StillCrashingReopens ==
    (RunDone /\ Contains(run.ran, "VERIFY_FIXED") /\ oracle["central"] = "CRASHED") =>
        /\ Contains(run.reported, "Bug is marked as FIXED but still reproduces")
        /\ status = "REOPENED"
        /\ _needs_confirm(NowCmds, status)

\* The findings of the primary check of _verify_fixed().
PrimaryFindings ==
    {"Verified bug as fixed",
     "Bug appears to be fixed but BugMon was unable to reproduce",
     "Bug is marked as FIXED but still reproduces"}

\* C21: when verify-fixed runs on a bug whose status is VERIFIED already,
\* the primary check is skipped: none of its findings is queued, the status
\* stays, and the closure mark is as it was when the run started.
C21_VerifiedSkipsPrimary ==
    (run.ran = <<"VERIFY_FIXED">> /\ run.start.status = "VERIFIED") =>
        /\ Range(run.reported) \cap PrimaryFindings = {}
        /\ status = "VERIFIED"
        /\ close_bug = run.start.close

\* C22: a process() run on an open bug that carries confirmed, whose last
\* change is more than 30 days back and whose tip crashes, queues the
\* finding that the bug remains reproducible, calls no bisection and adds
\* no command.
C22_Heartbeat ==
    (/\ pc = "idle"
     /\ run.ended # "none"
     /\ run.start.status \in {"ASSIGNED", "NEW", "UNCONFIRMED", "REOPENED"}
     /\ HasKey(StartCmds, Key("confirmed"))
     /\ record.last_change = "old"
     /\ oracle["central"] = "CRASHED")
    => /\ Contains(run.reported, "Bug remains reproducible")
       /\ run.bis = <<>>
       /\ \A i \in DOMAIN NowCmds : HasKey(StartCmds, NowCmds[i].k)

IsVerifyFixed == pc = "action" /\ actions[ai] = "VERIFY_FIXED" /\ ai' = ai + 1

\* C25: in the sweep of _verify_fixed(), whatever the primary check found,
\* a flag that was fixed becomes verified when its branch passed, affected
\* when it crashed, and stays fixed otherwise; a flag that was not fixed
\* stays, and its branch is not reproduced.
C25_BranchFlagSweep ==
    [][IsVerifyFixed =>
         \A a \in Aliases :
            IF flags[a] = "fixed"
            THEN /\ run'.fetches[a] = run.fetches[a] + 1
                 /\ flags'[a] = IF oracle'[a] = "PASSED" THEN "verified"
                                ELSE IF oracle'[a] = "CRASHED" THEN "affected"
                                ELSE "fixed"
            ELSE /\ flags'[a] = flags[a]
                 /\ run'.fetches[a] = run.fetches[a]
                 /\ run'.evals[a] = run.evals[a]]_vars

\* The sweep has turned a fixed flag into affected on a bug the primary
\* check verified, and left another branch alone.
C25_Witness ==
    /\ run.ran = <<"VERIFY_FIXED">>
    /\ status = "VERIFIED"
    /\ \E a \in Aliases : run.start.flags[a] = "fixed" /\ flags[a] = "affected"
    /\ \E a \in Aliases : run.start.flags[a] = "unaffected" /\ flags[a] = "unaffected"
                             /\ run.fetches[a] = 0

\* A step in which process() is entered and reproduces the tip.
IsTipReproduction == pc = "idle" /\ run'.n = run.n + 1 /\ run'.fetches["central"] > 0

\* C26: when the tip reproduction gives NO_BUILD or FAILED, process()
\* returns without running an action: commands, status, keywords, flags,
\* closure mark and queue are as before, no bisection was called and
\* nothing was written to the tracker.
C26_TipBuildFailureAborts ==
    [][(IsTipReproduction /\ oracle'["central"] \in {"NO_BUILD", "FAILED"}) =>
         /\ pc' = "idle"
         /\ run'.ran = <<>>
         /\ run'.bis = <<>>
         /\ ~run'.upd.called
         /\ UNCHANGED <<whiteboard, status, keywords, flags, close_bug, queue, tracker>>]_vars

\* process() has returned on a tip build that FAILED, for a bug that asked
\* for a bisection, and the request is still there.
C26_Witness ==
    /\ pc = "idle"
    /\ run.ended = "build_failure"
    /\ oracle["central"] = "FAILED"
    /\ HasKey(NowCmds, Key("bisect"))
    /\ run.ran = <<>>

\* C27: remove_command(key) with a key that is not among the decoded
\* commands raises nothing and leaves the whiteboard as it was, on every
\* text: without a region, with one, with a repeated token, with several
\* regions.
C27_RemoveAbsentKeyIsNoOp ==
    (/\ lastOp.name = "remove"
     /\ ~Decode(lastOp.impl, lastOp.before).err
     /\ ~HasKey(Decode(lastOp.impl, lastOp.before).d, lastOp.value))
    => /\ ~lastOp.err
       /\ whiteboard = lastOp.before

\* The tokens of the one region of the text t.
RegionTokens(t) ==
    Split(SubSeq(t, IndexOf(t, Marker) + 1, RunEnd(t, IndexOf(t, Marker) + 1) - 1), ",")

\* A token split on its first "=": the key before it and the value after
\* it, or the token as a key without value.
FirstEq(c) ==
    IF Contains(c, "=")
    THEN [k |-> SubSeq(c, 1, IndexOf(c, "=") - 1),
          v |-> Some(SubSeq(c, IndexOf(c, "=") + 1, Len(c)))]
    ELSE [k |-> c, v |-> None]

\* C28: the commands read from a text with one region are its tokens split
\* on their first "=" only: a token with several "=" gives the key before
\* the first and the rest as value, without error, and a token without "="
\* gives a key with no value; for both classes.
C28_SplitOnFirstEquals ==
    (/\ lastOp.name = "get"
     /\ Count(lastOp.before, Marker) = 1
     /\ Bracketed(lastOp.before, 1)
     /\ RunEnd(lastOp.before, IndexOf(lastOp.before, Marker) + 1)
            > IndexOf(lastOp.before, Marker) + 1)
    => /\ ~lastOp.err
       /\ \A i \in DOMAIN RegionTokens(lastOp.before) :
              HasKey(lastOp.value, FirstEq(RegionTokens(lastOp.before)[i]).k)
       /\ \A j \in DOMAIN lastOp.value :
              \E i \in DOMAIN RegionTokens(lastOp.before) :
                  lastOp.value[j] = FirstEq(RegionTokens(lastOp.before)[i])

\* The commands hold origRev with a value that is a 12- or 40-digit
\* hexadecimal revision.
ValidOrigRev ==
    /\ ~Decode(lastOp.impl, whiteboard).err
    /\ HasKey(Decode(lastOp.impl, whiteboard).d, Key("origRev"))
    /\ DictGet(Decode(lastOp.impl, whiteboard).d, Key("origRev")) # None
    /\ IsRev(DictGet(Decode(lastOp.impl, whiteboard).d, Key("origRev"))[1])

\* C29: with origRev=<value> among the commands and the value a valid
\* revision, initial_build_id of either class is that value, a string,
\* whatever the first comment holds.
C29_OrigRevIsBuildId ==
    (lastOp.name = "initial_build_id" /\ ValidOrigRev) =>
        /\ ~lastOp.value.err
        /\ lastOp.value.type = "str"
        /\ lastOp.value.v = DictGet(Decode(lastOp.impl, whiteboard).d, Key("origRev"))[1]

\* C30: on an EnhancedBug without client, add_comment, add_attachment,
\* update and cache_bug raise TypeError and leave the record as it was,
\* get_comments and get_attachments return what the record holds, and the
\* constructor without client raises BugException unless it is given both
\* attachments and comments.
C30_CachedBugIsReadOnly ==
    /\ (/\ lastOp.name \in {"add_comment", "add_attachment", "update", "cache_bug"}
        /\ lastOp.before.client = "None")
       => lastOp.err = "TypeError" /\ record = lastOp.before
    /\ (lastOp.name = "get_comments" /\ lastOp.before.client = "None")
       => /\ lastOp.err = "none"
          /\ lastOp.value = record.fields["comments"]
          /\ record = lastOp.before
    /\ (lastOp.name = "get_attachments" /\ lastOp.before.client = "None")
       => /\ lastOp.err = "none"
          /\ lastOp.value = record.fields["attachments"]
          /\ record = lastOp.before
    /\ (lastOp.name = "__init__" /\ lastOp.err = "none" /\ record.client = "None")
       => {"attachments", "comments"} \subseteq DOMAIN record.fields
    /\ (lastOp.name = "__init__" /\ lastOp.err # "none")
       => lastOp.err = "BugException" /\ record = lastOp.before
    /\ record.client = "None" => {"attachments", "comments"} \subseteq DOMAIN record.fields

\* update() was called on a cached bug whose summary had been assigned
\* since it was cached, and raised.
C30_Witness ==
    /\ lastOp.name = "update"
    /\ lastOp.before.client = "None"
    /\ lastOp.err = "TypeError"
    /\ "summary" \in DOMAIN record.fields
    /\ "summary" \in DOMAIN record.copy
    /\ record.fields["summary"] # record.copy["summary"]

\* A step in which process() is entered on a bug whose branch resolves and
\* for which none of the three predicates is true.
IsIdleEntry ==
    /\ pc = "idle"
    /\ run'.n = run.n + 1
    /\ BugMonitor_branch(version) # "None"
    /\ ~Monitor_commands(whiteboard).err
    /\ ~_needs_verify(NowCmds, status, resolution)
    /\ ~_needs_confirm(NowCmds, status)
    /\ ~_needs_bisect(NowCmds)

\* C31: when the branch resolves and none of _needs_verify(),
\* _needs_confirm(), _needs_bisect() is true, process() returns with no
\* build fetched, no evaluator run, no bisection and no update(), and with
\* whiteboard, status, keywords, flags and queue as they were.
C31_NothingToDo ==
    [][IsIdleEntry =>
         /\ pc' = "idle"
         /\ run'.ran = <<>>
         /\ run'.bis = <<>>
         /\ \A k \in DOMAIN run'.fetches : run'.fetches[k] = 0 /\ run'.evals[k] = 0
         /\ ~run'.upd.called
         /\ UNCHANGED <<whiteboard, status, keywords, flags, queue, close_bug, tracker>>]_vars

\* process() has returned on a reopened bug that carries verified,
\* confirmed and bisected and a fixed flag, and found nothing to do.
C31_Witness ==
    /\ pc = "idle"
    /\ run.ended = "nothing"
    /\ status = "REOPENED"
    /\ whiteboard = DoneBoard
    /\ \E a \in Aliases : flags[a] = "fixed"
    /\ ~run.upd.called

====
